---- MODULE Spec2Model ----
(***************************************************************************)
(* MockCGen (src/mockCGen.py): the header parser, the declaration store,   *)
(* the argument projector and the two emission passes.                     *)
(*                                                                         *)
(* A text is a sequence of atoms (TLA+ strings) whose concatenation is the *)
(* text.  Every text the regular expressions read (a header, a matched     *)
(* field) has one-character atoms, so the patterns are modelled character  *)
(* by character.  The literal parts of a format string of the emission     *)
(* passes are longer atoms.                                                *)
(***************************************************************************)
EXTENDS Naturals, Sequences, FiniteSets, TLC

\* ------------------------------------------------------------------------
\* Character classes of Python's re module
\* ------------------------------------------------------------------------

\* \w
WordChars ==
    {"a","b","c","d","e","f","g","h","i","j","k","l","m","n","o","p","q","r",
     "s","t","u","v","w","x","y","z","A","B","C","D","E","F","G","H","I","J",
     "K","L","M","N","O","P","Q","R","S","T","U","V","W","X","Y","Z","0","1",
     "2","3","4","5","6","7","8","9","_"}

\* \s
SpaceChars == {" ", "\t", "\n", "\r"}

IsWord(c) == c \in WordChars

IsSpace(c) == c \in SpaceChars

\* The character at index i of t, "" outside the text.
At(t, i) == IF i >= 1 /\ i <= Len(t) THEN t[i] ELSE ""

\* pat occurs in t at index i.
StartsAt(t, i, pat) ==
    /\ i >= 1
    /\ i + Len(pat) - 1 <= Len(t)
    /\ \A k \in 1..Len(pat) : t[i + k - 1] = pat[k]

Min(S) == CHOOSE x \in S : \A y \in S : x <= y

Max(S) == CHOOSE x \in S : \A y \in S : y <= x

\* The least index >= i where pat occurs in t, 0 when there is none.
Find(t, i, pat) ==
    LET at == {j \in i..(Len(t) + 1 - Len(pat)) : StartsAt(t, j, pat)}
    IN  IF at = {} THEN 0 ELSE Min(at)

\* str.__contains__ : pat in t
Contains(t, pat) == Find(t, 1, pat) # 0

\* The least index >= i whose character is not in \s (Len(t)+1 at the end).
SkipSpace(t, i) ==
    IF i > Len(t) THEN i
    ELSE Min({j \in i..(Len(t) + 1) : j = Len(t) + 1 \/ ~IsSpace(t[j])})

\* The least index >= i whose character is not in \w (Len(t)+1 at the end).
SkipWord(t, i) ==
    IF i > Len(t) THEN i
    ELSE Min({j \in i..(Len(t) + 1) : j = Len(t) + 1 \/ ~IsWord(t[j])})

\* The least index j <= i with t[j..i-1] all in \s.
BackSpace(t, i) ==
    IF i <= 1 THEN i
    ELSE Max({j \in 1..i : j = 1 \/ ~IsSpace(t[j - 1])})

\* The least index j <= i with t[j..i-1] all in \w.
BackWord(t, i) ==
    IF i <= 1 THEN i
    ELSE Max({j \in 1..i : j = 1 \/ ~IsWord(t[j - 1])})

\* t[i..j], empty when j < i.
Slice(t, i, j) == IF j < i THEN <<>> ELSE SubSeq(t, i, j)

\* str.lstrip(' ')
LStripSpaces(t) ==
    Slice(t, Min({j \in 1..(Len(t) + 1) : j = Len(t) + 1 \/ t[j] # " "}), Len(t))

\* str.replace(pat, '') : every non-overlapping occurrence, left to right.
RECURSIVE Remove(_, _, _)
Remove(t, i, pat) ==
    IF Find(t, i, pat) = 0 THEN Slice(t, i, Len(t))
    ELSE Slice(t, i, Find(t, i, pat) - 1)
             \o Remove(t, Find(t, i, pat) + Len(pat), pat)

\* str.split(','), from index i on.
RECURSIVE Split(_, _)
Split(t, i) ==
    IF Find(t, i, <<",">>) = 0 THEN <<Slice(t, i, Len(t))>>
    ELSE <<Slice(t, i, Find(t, i, <<",">>) - 1)>>
             \o Split(t, Find(t, i, <<",">>) + 1)

\* ', '.join(strList)
RECURSIVE Join(_)
Join(strList) ==
    IF strList = <<>> THEN <<>>
    ELSE IF Len(strList) = 1 THEN strList[1]
    ELSE strList[1] \o <<",", " ">> \o Join(Tail(strList))

\* ------------------------------------------------------------------------
\* pattComment = (/[*](?:.|[\r\n])*?[*]/)|(//.*)
\* ------------------------------------------------------------------------

\* Index of the newline that ends the line of index i (Len(t)+1 when the
\* last line has none): '.' matches every character but "\n".
LineEnd(t, i) ==
    IF i > Len(t) THEN i
    ELSE Min({j \in i..(Len(t) + 1) : j = Len(t) + 1 \/ t[j] = "\n"})

\* The index after a comment matched at i, 0 when none is matched there.
\* A block comment needs its closing "*/": the lazy body ends at the first.
pattCommentMatchEnd(t, i) ==
    IF StartsAt(t, i, <<"/", "*">>) /\ Find(t, i + 2, <<"*", "/">>) # 0
        THEN Find(t, i + 2, <<"*", "/">>) + 2
    ELSE IF StartsAt(t, i, <<"/", "/">>) THEN LineEnd(t, i)
    ELSE 0

\* pattComment.sub('', header), scanning from index i: the text up to the
\* next match is kept, the match is dropped.
RECURSIVE pattCommentSub(_, _)
pattCommentSub(t, i) ==
    LET at == {j \in i..Len(t) : pattCommentMatchEnd(t, j) # 0}
    IN  IF at = {} THEN Slice(t, i, Len(t))
        ELSE Slice(t, i, Min(at) - 1)
                 \o pattCommentSub(t, pattCommentMatchEnd(t, Min(at)))

\* ------------------------------------------------------------------------
\* pattBrace = (?<!"C" ){[^{}]*}
\* ------------------------------------------------------------------------

\* The negative look-behind text: "C" and one space.
pattBraceBehind == <<"\"", "C", "\"", " ">>

\* The least index >= i of a brace character, 0 when there is none.
NextBrace(t, i) ==
    LET at == {j \in i..Len(t) : t[j] \in {"{", "}"}}
    IN  IF at = {} THEN 0 ELSE Min(at)

\* The index after a brace span matched at i, 0 when none is matched there.
pattBraceMatchEnd(t, i) ==
    IF /\ At(t, i) = "{"
       /\ ~StartsAt(t, i - Len(pattBraceBehind), pattBraceBehind)
       /\ NextBrace(t, i + 1) # 0
       /\ t[NextBrace(t, i + 1)] = "}"
    THEN NextBrace(t, i + 1) + 1
    ELSE 0

\* pattBrace.findall(header) is not empty.
pattBraceFound(t) == \E i \in 1..Len(t) : pattBraceMatchEnd(t, i) # 0

\* pattBrace.sub('', header), scanning from index i: the text up to the
\* next match is kept, the match is dropped.
RECURSIVE pattBraceSub(_, _)
pattBraceSub(t, i) ==
    LET at == {j \in i..Len(t) : pattBraceMatchEnd(t, j) # 0}
    IN  IF at = {} THEN Slice(t, i, Len(t))
        ELSE Slice(t, i, Min(at) - 1)
                 \o pattBraceSub(t, pattBraceMatchEnd(t, Min(at)))

\* while self.pattBrace.findall(header): header = self.pattBrace.sub('', header)
RECURSIVE FilterBraces(_)
FilterBraces(t) ==
    IF pattBraceFound(t) THEN FilterBraces(pattBraceSub(t, 1)) ELSE t

\* ------------------------------------------------------------------------
\* pattFunc = ^\s*?(?=\w)(.*?)(\w*?)\s*?\(([^;]*?)\)\s*;   (re.MULTILINE)
\* ------------------------------------------------------------------------

NoMatch == [end |-> 0]

\* '^' under re.MULTILINE
IsLineStart(t, s) == s = 1 \/ (s >= 2 /\ s <= Len(t) + 1 /\ t[s - 1] = "\n")

\* The least line start >= s, 0 when there is none in the text.
NextLineStart(t, s) ==
    LET at == {j \in s..Len(t) : IsLineStart(t, j)}
    IN  IF at = {} THEN 0 ELSE Min(at)

\* The tail \)\s*; for an opening parenthesis at q: the argument group holds
\* no ";", so the ";" is the first one after q and the ")" is the last
\* character before it that is not in \s.  0 when the tail does not match.
pattFuncClose(t, q) ==
    LET z == Find(t, q + 1, <<";">>)
        p == IF z = 0 THEN 0 ELSE BackSpace(t, z) - 1
    IN  IF z # 0 /\ p > q /\ t[p] = ")" THEN p ELSE 0

\* The match that starts at the word of index t0 with its "(" at or after
\* index q.  The lazy groups make the first "(" that completes a match win:
\* group 2 and the space before "(" are the word and space runs that end at
\* it, group 1 (which holds no "\n") is what precedes them.
RECURSIVE pattFuncFrom(_, _, _)
pattFuncFrom(t, t0, q) ==
    LET o == Find(t, q, <<"(">>)
        w == BackWord(t, BackSpace(t, o))
    IN  IF o = 0 THEN NoMatch
        ELSE IF Contains(Slice(t, t0, w - 1), <<"\n">>) THEN NoMatch
        ELSE IF pattFuncClose(t, o) # 0
            THEN [end |-> Find(t, o + 1, <<";">>),
                  g1  |-> Slice(t, t0, w - 1),
                  g2  |-> Slice(t, w, SkipWord(t, w) - 1),
                  g3  |-> Slice(t, o + 1, pattFuncClose(t, o) - 1)]
        ELSE pattFuncFrom(t, t0, o + 1)

\* The match at line start s: \s*? runs up to the first word character.
pattFuncMatchAt(t, s) ==
    LET t0 == SkipSpace(t, s)
    IN  IF IsWord(At(t, t0)) THEN pattFuncFrom(t, t0, t0 + 1) ELSE NoMatch

\* pattFunc.findall(header): the non-overlapping matches from index pos on.
RECURSIVE pattFuncFindall(_, _)
pattFuncFindall(t, pos) ==
    LET s == NextLineStart(t, pos)
        m == pattFuncMatchAt(t, s)
    IN  IF s = 0 THEN <<>>
        ELSE IF m.end = 0 THEN pattFuncFindall(t, s + 1)
        ELSE <<m>> \o pattFuncFindall(t, m.end + 1)

\* ------------------------------------------------------------------------
\* pattBadParenthesis = ^[^(]*(?=\))
\* ------------------------------------------------------------------------

\* pattBadParenthesis.search(field): a ")" with no "(" before it.
pattBadParenthesisSearch(t) ==
    /\ Find(t, 1, <<")">>) # 0
    /\ Find(t, 1, <<"(">>) \in {0} \cup {j \in 1..Len(t) : j > Find(t, 1, <<")">>)}

\* ------------------------------------------------------------------------
\* pattArg = (\w+)(\[.*\])?$     pattArgEllipsis = \.{3}
\* pattArgPFunc = (\w*)\)\s*?\(
\* ------------------------------------------------------------------------

NoGroup == [found |-> FALSE, g1 |-> <<>>]

\* '$' without re.MULTILINE: the end of the text, or before a last "\n".
IsEnd(t, p) == p = Len(t) + 1 \/ (p = Len(t) /\ t[p] = "\n")

\* (\[.*\])?$ at index e: the end, or a bracket span on one line up to it.
pattArgTail(t, e) ==
    \/ IsEnd(t, e)
    \/ /\ At(t, e) = "["
       /\ \E j \in (e + 1)..Len(t) :
            /\ t[j] = "]"
            /\ IsEnd(t, j + 1)
            /\ ~Contains(Slice(t, e + 1, j - 1), <<"\n">>)

\* pattArg.search(arg): the leftmost word whose run is followed by the tail.
pattArgSearch(t) ==
    LET starts == {i \in 1..Len(t) : IsWord(t[i]) /\ pattArgTail(t, SkipWord(t, i))}
        i0     == CHOOSE i \in starts : \A j \in starts : i <= j
    IN  IF starts = {} THEN NoGroup
        ELSE [found |-> TRUE, g1 |-> Slice(t, i0, SkipWord(t, i0) - 1)]

\* pattArgEllipsis.search(arg)
pattArgEllipsisSearch(t) == Contains(t, <<".", ".", ".">>)

\* pattArgPFunc.search(arg): the word run before the first ")" that only
\* space separates from a "(".
pattArgPFuncSearch(t) ==
    LET closes == {p \in 1..Len(t) : t[p] = ")" /\ At(t, SkipSpace(t, p + 1)) = "("}
        p0     == CHOOSE p \in closes : \A j \in closes : p <= j
    IN  IF closes = {} THEN NoGroup
        ELSE [found |-> TRUE, g1 |-> Slice(t, BackWord(t, p0), p0 - 1)]

\* ------------------------------------------------------------------------
\* MockCGen.ParseHeader, steps 1 to 4: the accepted declarations of a header
\* ------------------------------------------------------------------------

Inline == <<"i", "n", "l", "i", "n", "e">>

Extern == <<"e", "x", "t", "e", "r", "n">>

Void == <<"v", "o", "i", "d">>

\* Steps 1 and 2: comments, then brace spans, are removed.
Normalize(header) == FilterBraces(pattCommentSub(header, 1))

\* Step 4.1: the checks that make the loop 'continue'.
IsRejected(m) ==
    \/ Len(LStripSpaces(m.g1)) = 0
    \/ Len(LStripSpaces(m.g2)) = 0
    \/ Len(LStripSpaces(m.g3)) = 0
    \/ pattBadParenthesisSearch(m.g3)
    \/ pattBadParenthesisSearch(m.g2)
    \/ Contains(m.g1, Inline)

\* Step 4.2: returnField.replace('extern','')
StripExtern(returnField) == Remove(returnField, 1, Extern)

\* Steps 4.1 to 4.3 over the matches, in order.
RECURSIVE AcceptAll(_)
AcceptAll(match) ==
    IF match = <<>> THEN <<>>
    ELSE IF IsRejected(match[1]) THEN AcceptAll(Tail(match))
    ELSE <<[returnField |-> StripExtern(match[1].g1),
            funcField   |-> match[1].g2,
            argsField   |-> match[1].g3]>> \o AcceptAll(Tail(match))

\* funcList at step 5.
ParseFuncList(header) == AcceptAll(pattFuncFindall(Normalize(header), 1))

\* ------------------------------------------------------------------------
\* MockCGen.ParseArgs
\* ------------------------------------------------------------------------

\* Mutant of ArgBranch: the function-pointer pattern is tried first.
ArgBranchPFuncFirst(arg, strList) ==
    IF pattArgPFuncSearch(arg).found
        THEN Append(strList, pattArgPFuncSearch(arg).g1)
    ELSE IF pattArgSearch(arg).found
        THEN IF pattArgSearch(arg).g1 # Void
                THEN Append(strList, pattArgSearch(arg).g1)
                ELSE strList
    ELSE strList

\* The body of the loop for a segment without ellipsis: the new strList.
ArgBranch(arg, strList) ==
    IF pattArgSearch(arg).found
        THEN IF pattArgSearch(arg).g1 # Void
                THEN Append(strList, pattArgSearch(arg).g1)
                ELSE strList
    ELSE IF pattArgPFuncSearch(arg).found
        THEN Append(strList, pattArgPFuncSearch(arg).g1)
    ELSE strList

\* Mutant of ParseArgsLoop: a segment with an ellipsis is skipped and the
\* other segments are projected.
RECURSIVE ParseArgsLoopSkipEllipsis(_, _, _)
ParseArgsLoopSkipEllipsis(argList, i, strList) ==
    IF i > Len(argList)
        THEN [none |-> FALSE, argsStr |-> Join(strList), argsCnt |-> Len(strList)]
    ELSE IF pattArgEllipsisSearch(argList[i])
        THEN ParseArgsLoopSkipEllipsis(argList, i + 1, strList)
    ELSE ParseArgsLoopSkipEllipsis(argList, i + 1, ArgBranch(argList[i], strList))

\* The loop over argList from index i: (None, 0) at the first segment with
\* an ellipsis, else the joined strList and its length.
RECURSIVE ParseArgsLoop(_, _, _)
ParseArgsLoop(argList, i, strList) ==
    IF i > Len(argList)
        THEN [none |-> FALSE, argsStr |-> Join(strList), argsCnt |-> Len(strList)]
    ELSE IF pattArgEllipsisSearch(argList[i])
        THEN [none |-> TRUE, argsStr |-> <<>>, argsCnt |-> 0]
    ELSE ParseArgsLoop(argList, i + 1, ArgBranch(argList[i], strList))

ParseArgs(args) == ParseArgsLoop(Split(args, 1), 1, <<>>)

\* ------------------------------------------------------------------------
\* Inputs: header and argument texts, put together from named fragments
\* ------------------------------------------------------------------------

\* Fragments of a header: declarations, blocks, comments.
\* int f(int a);\n
TxtDeclF ==
    <<"i","n","t"," ","f","(","i","n","t"," ","a",")",";","\n">>

\* void g(void);\n
TxtDeclG ==
    <<"v","o","i","d"," ","g","(","v","o","i","d",")",";","\n">>

\* static inline int h(void) { int b(int x); }\n
TxtInlineH ==
    <<"s","t","a","t","i","c"," ","i","n","l","i","n","e"," ","i","n","t",
      " ","h","(","v","o","i","d",")"," ","{"," ","i","n","t"," ","b","(",
      "i","n","t"," ","x",")",";"," ","}","\n">>

\* extern "C" {\n
TxtExternC ==
    <<"e","x","t","e","r","n"," ","\"","C","\""," ","{","\n">>

\* extern "C"\n{\n
TxtExternCNewline ==
    <<"e","x","t","e","r","n"," ","\"","C","\"","\n","{","\n">>

\* extern "C"{\n
TxtExternCTight ==
    <<"e","x","t","e","r","n"," ","\"","C","\"","{","\n">>

\* namespace N {\n
TxtNamespace ==
    <<"n","a","m","e","s","p","a","c","e"," ","N"," ","{","\n">>

\* }\n
TxtClose ==
    <<"}","\n">>

\* /* c\n
TxtCommentOpen ==
    <<"/","*"," ","c","\n">>

\* */\n
TxtCommentClose ==
    <<"*","/","\n">>

\* extern int e(void);\n
TxtExternDecl ==
    <<"e","x","t","e","r","n"," ","i","n","t"," ","e","(","v","o","i","d",
      ")",";","\n">>

\* externs_t k(int a);\n
TxtExternName ==
    <<"e","x","t","e","r","n","s","_","t"," ","k","(","i","n","t"," ","a",
      ")",";","\n">>

\* Return types of a declaration.
\* void 
TxtRetVoid ==
    <<"v","o","i","d"," ">>

\* void *
TxtRetVoidPtr ==
    <<"v","o","i","d"," ","*">>

\* int 
TxtRetInt ==
    <<"i","n","t"," ">>

\* voidp_t 
TxtRetVoidName ==
    <<"v","o","i","d","p","_","t"," ">>

\* static void 
TxtRetStaticVoid ==
    <<"s","t","a","t","i","c"," ","v","o","i","d"," ">>

\* const char *
TxtRetCharPtr ==
    <<"c","o","n","s","t"," ","c","h","a","r"," ","*">>

\* The name and the end of a declaration.
\* m(
TxtNameM ==
    <<"m","(">>

\* );\n
TxtEnd ==
    <<")",";","\n">>

\* Parameters of an argument list.
\* int a
TxtPInt ==
    <<"i","n","t"," ","a">>

\*  int d
TxtPLead ==
    <<" ","i","n","t"," ","d">>

\* int b 
TxtPTrail ==
    <<"i","n","t"," ","b"," ">>

\* char *
TxtPPtr ==
    <<"c","h","a","r"," ","*">>

\* int
TxtPUnnamed ==
    <<"i","n","t">>

\* char c[4]
TxtPArray ==
    <<"c","h","a","r"," ","c","[","4","]">>

\* void (*cb)(int)
TxtPFunc ==
    <<"v","o","i","d"," ","(","*","c","b",")","(","i","n","t",")">>

\* void (*cb)(int a, int b)
TxtPFunc2 ==
    <<"v","o","i","d"," ","(","*","c","b",")","(","i","n","t"," ","a",",",
      " ","i","n","t"," ","b",")">>

\* void
TxtPVoid ==
    <<"v","o","i","d">>

\* ...
TxtPEllipsis ==
    <<".",".",".">>

\* The comma between two parameters.
TxtPComma ==
    <<",">>

\* The text of a fragment.
FragText(name) ==
    CASE name = "DeclF" -> TxtDeclF
      [] name = "DeclG" -> TxtDeclG
      [] name = "InlineH" -> TxtInlineH
      [] name = "ExternC" -> TxtExternC
      [] name = "ExternCNewline" -> TxtExternCNewline
      [] name = "ExternCTight" -> TxtExternCTight
      [] name = "Namespace" -> TxtNamespace
      [] name = "Close" -> TxtClose
      [] name = "CommentOpen" -> TxtCommentOpen
      [] name = "CommentClose" -> TxtCommentClose
      [] name = "ExternDecl" -> TxtExternDecl
      [] name = "ExternName" -> TxtExternName
      [] name = "RetVoid" -> TxtRetVoid
      [] name = "RetVoidPtr" -> TxtRetVoidPtr
      [] name = "RetInt" -> TxtRetInt
      [] name = "RetVoidName" -> TxtRetVoidName
      [] name = "RetStaticVoid" -> TxtRetStaticVoid
      [] name = "RetCharPtr" -> TxtRetCharPtr
      [] name = "NameM" -> TxtNameM
      [] name = "End" -> TxtEnd
      [] name = "PInt" -> TxtPInt
      [] name = "PLead" -> TxtPLead
      [] name = "PTrail" -> TxtPTrail
      [] name = "PPtr" -> TxtPPtr
      [] name = "PUnnamed" -> TxtPUnnamed
      [] name = "PArray" -> TxtPArray
      [] name = "PFunc" -> TxtPFunc
      [] name = "PFunc2" -> TxtPFunc2
      [] name = "PVoid" -> TxtPVoid
      [] name = "PEllipsis" -> TxtPEllipsis
      [] name = "PComma" -> TxtPComma


RECURSIVE Concat(_)
Concat(ss) == IF ss = <<>> THEN <<>> ELSE ss[1] \o Concat(Tail(ss))

\* The text of a header or an argument list given by its fragments.
Text(parts) == Concat([i \in 1..Len(parts) |-> FragText(parts[i])])

Range(s) == {s[i] : i \in 1..Len(s)}

StructFrags ==
    {"DeclF", "DeclG", "InlineH", "ExternC", "ExternCNewline", "ExternCTight",
     "Namespace", "Close", "CommentOpen", "CommentClose", "ExternDecl",
     "ExternName"}

RetFrags ==
    {"RetVoid", "RetVoidPtr", "RetInt", "RetVoidName", "RetStaticVoid",
     "RetCharPtr"}

ParamFrags ==
    {"PInt", "PLead", "PTrail", "PPtr", "PUnnamed", "PArray", "PFunc",
     "PFunc2", "PVoid", "PEllipsis"}

\* Argument lists: one parameter, or two with a comma between them.
ArgLists ==
    {<<p>> : p \in ParamFrags}
        \cup {<<p, "PComma", q>> : p \in ParamFrags, q \in ParamFrags}

\* Headers of one to three fragments.
StructHeaders ==
    {<<a>> : a \in StructFrags}
        \cup {<<a, b>> : a \in StructFrags, b \in StructFrags}
        \cup {<<a, b, c>> : a \in StructFrags, b \in StructFrags, c \in StructFrags}

\* Headers of one declaration: a return type, the name m, an argument list.
DeclHeaders ==
    {<<r, "NameM">> \o a \o <<"End">> :
        r \in RetFrags,
        a \in {<<"PVoid">>, <<"PInt">>, <<"PInt", "PComma", "PLead">>,
               <<"PPtr", "PComma", "PEllipsis">>, <<"PFunc">>}}

Headers == StructHeaders \cup DeclHeaders

\* The headers of the runs that parse several files.
StoreHeaders ==
    {<<"DeclF", "DeclG">>, <<"CommentOpen", "DeclF", "CommentClose">>}

Files == {"A.h", "B.h"}

ClassNames == {"mock"}

\* The default of the command line's --weak.
Weaks == {"__attribute__((weak))"}

\* str.upper() of a class name.
Upper(className) == CASE className = "mock" -> "MOCK"

\* '%d' % n
Digits == <<"0", "1", "2", "3", "4", "5", "6", "7", "8", "9">>

RECURSIVE ToDecimal(_)
ToDecimal(n) ==
    IF n < 10 THEN <<Digits[n + 1]>>
    ELSE ToDecimal(n \div 10) \o <<Digits[(n % 10) + 1]>>

MaxCalls == 3

MaxObjs == 2

\* ------------------------------------------------------------------------
\* State
\* ------------------------------------------------------------------------

VARIABLES
    objs,       \* the MockCGen instances made so far: the weak of each
    fileList,   \* the class attribute MockCGen.fileList
    fileDict,   \* the class attribute MockCGen.fileDict
    calls,      \* the ParseHeader calls made so far: fileName and header
    hdrOut,     \* what the last BuildMockCHeader wrote, one entry per write
    srcOut,     \* what the last BuildMockCSource wrote, one entry per write
    args,       \* the argument of the last direct ParseArgs call
    argsOut     \* what that call returned

vars == <<objs, fileList, fileDict, calls, hdrOut, srcOut, args, argsOut>>

EmptyDict == [f \in {} |-> <<>>]

NoResult == [none |-> FALSE, argsStr |-> <<>>, argsCnt |-> 0]

\* self.fileList and self.fileDict of instance o: no instance ever assigns
\* them, so the lookup finds the attributes of the class.
StoreOf(o) == [fileList |-> fileList, fileDict |-> fileDict]

\* ------------------------------------------------------------------------
\* Emission: a write is the text of one file.write call and, for a write made
\* for a declaration, the file name and index of that declaration
\* ------------------------------------------------------------------------

Frame(text) == [for |-> <<>>, text |-> text]

Of(fileName, i, text) == [for |-> <<fileName, i>>, text |-> text]

Signature(func) ==
    func.returnField \o func.funcField \o <<"(">> \o func.argsField \o <<")">>

\* The virtual member of a declaration.
VirtualWrite(fileName, i, func) ==
    IF ParseArgs(func.argsField).none
        THEN Of(fileName, i,
                <<"    ", "//", " Not supported: virtual ">> \o Signature(func)
                    \o <<" = 0;\n">>)
        ELSE Of(fileName, i,
                <<"    ", "virtual ">> \o Signature(func) \o <<" = 0;\n">>)

\* The MOCK_METHOD of a declaration.
MockMethodWrite(fileName, i, func) ==
    LET body == <<"MOCK_METHOD">> \o ToDecimal(ParseArgs(func.argsField).argsCnt)
                    \o <<"(">> \o func.funcField \o <<",">> \o func.returnField
                    \o <<"(">> \o func.argsField \o <<"));\n">>
    IN  IF ParseArgs(func.argsField).none
            THEN Of(fileName, i, <<"    ", "//", " Not Supported: ">> \o body)
            ELSE Of(fileName, i, <<"    ">> \o body)

\* Check if a return is required (i.e. not void or has pointer)
ReturnRequired(returnField) ==
    ~Contains(returnField, Void) \/ Contains(returnField, <<"*">>)

\* The fake function of a declaration.
FakeWrites(className, fileName, i, func) ==
    LET callStr == <<"_px", className, "->">> \o func.funcField \o <<"(">>
                       \o ParseArgs(func.argsField).argsStr \o <<");\n">>
    IN  IF ParseArgs(func.argsField).none
            THEN << Of(fileName, i,
                       <<"//", " This function declaration is not supported by gMock\n">>),
                    Of(fileName, i,
                       <<"//", " WEAK ">> \o Signature(func) \o <<" { }\n\n">>) >>
            ELSE << Of(fileName, i, <<"WEAK ">> \o Signature(func) \o <<"\n">>),
                    Of(fileName, i, <<"{\n">>),
                    Of(fileName, i,
                       <<"    ">> \o (IF ReturnRequired(func.returnField)
                                         THEN <<"return ">> ELSE <<>>) \o callStr),
                    Of(fileName, i, <<"}\n\n">>) >>

\* The loops over self.fileList and self.fileDict[fileName].
VirtualSection(fl, fd) ==
    Concat([k \in 1..Len(fl) |->
        <<Frame(<<"\n    // From ", fl[k], "\n">>)>>
            \o [i \in 1..Len(fd[fl[k]]) |-> VirtualWrite(fl[k], i, fd[fl[k]][i])]])

MockSection(fl, fd) ==
    Concat([k \in 1..Len(fl) |->
        <<Frame(<<"\n    // From ", fl[k], "\n">>)>>
            \o [i \in 1..Len(fd[fl[k]]) |-> MockMethodWrite(fl[k], i, fd[fl[k]][i])]])

FakeSection(className, fl, fd) ==
    Concat([k \in 1..Len(fl) |->
        <<Frame(<<"\n// From ", fl[k], "\n">>)>>
            \o Concat([i \in 1..Len(fd[fl[k]]) |->
                          FakeWrites(className, fl[k], i, fd[fl[k]][i])])])

Banner ==
    << Frame(<<"///////////////////////////////////////////////////////////////\n">>),
       Frame(<<"//DO NOT MODIFY--This is an autogenerated file--DO NOT MODIFY//\n">>),
       Frame(<<"///////////////////////////////////////////////////////////////\n">>) >>

\* Everything BuildMockCHeader writes.
MockCHeaderText(fl, fd, className, isGMethodReqd) ==
    Banner
    \o << Frame(<<"#ifndef __", Upper(className), "_H__\n">>),
          Frame(<<"#define __", Upper(className), "_H__\n">>),
          Frame(<<"\n">>),
          Frame(<<"#include <gmock/gmock.h>\n">>),
          Frame(<<"#include <gtest/gtest.h>\n">>),
          Frame(<<"#include <stdint.h>\n">>),
          Frame(<<"\n">>),
          Frame(<<"extern \"C\"\n">>),
          Frame(<<"{\n">>),
          Frame(<<"\n">>),
          Frame(<<"// Include header files that are mocked\n">>) >>
    \o [k \in 1..Len(fl) |-> Frame(<<"#include \"", fl[k], "\"\n">>)]
    \o << Frame(<<"\n">>),
          Frame(<<"// The virtual class\n">>),
          Frame(<<"class I", className, "\n">>),
          Frame(<<"{\n">>),
          Frame(<<"public:\n">>),
          Frame(<<"    // Destructor required for gmock\n">>),
          Frame(<<"    virtual ~I", className, "() { }\n">>) >>
    \o VirtualSection(fl, fd)
    \o << Frame(<<"};\n">>),
          Frame(<<"\n">>) >>
    \o (IF isGMethodReqd
        THEN << Frame(<<"// The GMOCK class\n">>),
                Frame(<<"class MockI", className, " : public I", className, "\n">>),
                Frame(<<"{\n">>),
                Frame(<<"public:\n">>) >>
             \o MockSection(fl, fd)
             \o << Frame(<<"};\n">>),
                   Frame(<<"\n">>) >>
        ELSE << Frame(<<"// Generate the GMOCK methods file ", className,
                        ".hpp using the following command\n">>),
                Frame(<<"// and be sure that the file is in the search path.\n">>),
                Frame(<<"// googlemock/scripts/generator/gmock_gen.py ", className,
                        ".h >> ", className, ".hpp\n">>),
                Frame(<<"#include \"", className, ".hpp\"\n">>),
                Frame(<<"\n">>) >>)
    \o << Frame(<<"// This must be called before the \"C\" mock is used\n">>),
          Frame(<<"void ", className, "_init(MockI", className, " *px", className,
                  ");\n\n">>),
          Frame(<<"} // extern \"C\"\n">>),
          Frame(<<"#endif // __", Upper(className), "_H__\n">>) >>

\* Everything BuildMockCSource writes.
MockCSourceText(fl, fd, weak, className) ==
    Banner
    \o << Frame(<<"\n">>),
          Frame(<<"#include <stdint.h>\n">>),
          Frame(<<"#include \"etypes.h\"\n">>),
          Frame(<<"#include \"", className, ".h\"\n">>),
          Frame(<<"\n">>),
          Frame(<<"extern \"C\"\n">>),
          Frame(<<"{\n">>),
          Frame(<<"using namespace ::testing;\n\n">>),
          Frame(<<"//=============================================================\n">>),
          Frame(<<"// Define WEAK to the compiler specific \"weak\" attribute\n">>),
          Frame(<<"#undef  WEAK\n">>),
          Frame(<<"#define WEAK    ", weak, "\n">>),
          Frame(<<"\n">>),
          Frame(<<"// Define the singleton pointer to the mock implementation\n">>),
          Frame(<<"static MockI", className, " _px", className, "Dummy;\n">>),
          Frame(<<"static MockI", className, " *_px", className, " = &_px",
                  className, "Dummy;\n">>),
          Frame(<<"\n">>),
          Frame(<<"// This must be called before the \"C\" mock is used\n">>),
          Frame(<<"void ", className, "_init(MockI", className, " *px", className,
                  ")\n">>),
          Frame(<<"{\n">>),
          Frame(<<"    _px", className, " = px", className, ";\n">>),
          Frame(<<"}\n">>),
          Frame(<<"//=============================================================\n">>),
          Frame(<<"\n">>) >>
    \o FakeSection(className, fl, fd)
    \o << Frame(<<"} // extern \"C\"\n">>) >>

\* ------------------------------------------------------------------------
\* Operations
\* ------------------------------------------------------------------------

\* Mutant of StoreFileList: the file name is appended whatever was found.
StoreFileListAlways(fl, fileName, funcList) == Append(fl, fileName)

\* Step 5 of ParseHeader: the new fileList and fileDict.
StoreFileList(fl, fileName, funcList) ==
    IF funcList # <<>> THEN Append(fl, fileName) ELSE fl

StoreFileDict(fd, fileName, funcList) ==
    IF funcList # <<>>
        THEN [f \in DOMAIN fd \cup {fileName} |->
                 IF f = fileName THEN funcList ELSE fd[f]]
        ELSE fd

\* MockCGen(weak)
Construct(weak) ==
    /\ Len(objs) < MaxObjs
    /\ objs' = Append(objs, weak)
    /\ UNCHANGED <<fileList, fileDict, calls, hdrOut, srcOut, args, argsOut>>

\* objs[o].ParseHeader(fileName, header), header the text of parts.  The
\* headers are parsed before the emission passes, as main does.
ParseHeader(o, fileName, parts) ==
    /\ hdrOut = <<>> /\ srcOut = <<>>
    /\ fileList' = StoreFileList(StoreOf(o).fileList, fileName,
                                 ParseFuncList(Text(parts)))
    /\ fileDict' = StoreFileDict(StoreOf(o).fileDict, fileName,
                                 ParseFuncList(Text(parts)))
    /\ calls' = Append(calls, [fileName |-> fileName, parts |-> parts])
    /\ UNCHANGED <<objs, hdrOut, srcOut, args, argsOut>>

\* objs[o].BuildMockCHeader(file, className, isGMethodReqd)
BuildMockCHeader(o, className, isGMethodReqd) ==
    /\ hdrOut' = MockCHeaderText(StoreOf(o).fileList, StoreOf(o).fileDict,
                                 className, isGMethodReqd)
    /\ UNCHANGED <<objs, fileList, fileDict, calls, srcOut, args, argsOut>>

\* objs[o].BuildMockCSource(file, className)
BuildMockCSource(o, className) ==
    /\ srcOut' = MockCSourceText(StoreOf(o).fileList, StoreOf(o).fileDict,
                                 objs[o], className)
    /\ UNCHANGED <<objs, fileList, fileDict, calls, hdrOut, args, argsOut>>

\* objs[o].ParseArgs(args), args the text of params
ParseArgsCall(o, params) ==
    /\ args' = params
    /\ argsOut' = ParseArgs(Text(params))
    /\ UNCHANGED <<objs, fileList, fileDict, calls, hdrOut, srcOut>>

\* ------------------------------------------------------------------------
\* Specifications
\* ------------------------------------------------------------------------

Init ==
    /\ objs \in {<<w>> : w \in Weaks}
    /\ fileList = <<>>
    /\ fileDict = EmptyDict
    /\ calls = <<>>
    /\ hdrOut = <<>>
    /\ srcOut = <<>>
    /\ args = <<>>
    /\ argsOut = NoResult

\* Several instances, several files.
Next ==
    \/ \E w \in Weaks : Construct(w)
    \/ \E o \in 1..Len(objs), f \in Files, p \in StoreHeaders :
           Len(calls) < MaxCalls /\ ParseHeader(o, f, p)
    \/ \E o \in 1..Len(objs), c \in ClassNames, g \in BOOLEAN :
           BuildMockCHeader(o, c, g)
    \/ \E o \in 1..Len(objs), c \in ClassNames : BuildMockCSource(o, c)

Spec == Init /\ [][Next]_vars

\* One instance parses one header out of Headers and emits both files.
NextParse ==
    \/ \E p \in Headers : calls = <<>> /\ ParseHeader(1, "A.h", p)
    \/ \E c \in ClassNames, g \in BOOLEAN : BuildMockCHeader(1, c, g)
    \/ \E c \in ClassNames : BuildMockCSource(1, c)

SpecParse == Init /\ [][NextParse]_vars

\* One instance projects argument lists.
NextArgs == \E a \in ArgLists : ParseArgsCall(1, a)

SpecArgs == Init /\ [][NextArgs]_vars

\* ------------------------------------------------------------------------
\* Vocabulary of the claims
\* ------------------------------------------------------------------------

\* The declarations stored for a file name, none when it has no entry.
Stored(f) == IF f \in DOMAIN fileDict THEN fileDict[f] ELSE <<>>

\* The stored declarations: file name and index.
StoredKeys ==
    UNION {{<<f, i>> : i \in 1..Len(fileDict[f])} : f \in DOMAIN fileDict}

\* The declaration a plain declaration fragment declares.
DeclOf(frag) ==
    CASE frag = "DeclF" ->
            [returnField |-> <<"i", "n", "t", " ">>, funcField |-> <<"f">>,
             argsField |-> <<"i", "n", "t", " ", "a">>]
      [] frag = "DeclG" ->
            [returnField |-> <<"v", "o", "i", "d", " ">>, funcField |-> <<"g">>,
             argsField |-> <<"v", "o", "i", "d">>]

PlainDecls == {"DeclF", "DeclG"}

\* The declarations of the plain declaration fragments of a header, in order.
TopLevelDecls(parts) ==
    Concat([i \in 1..Len(parts) |->
               IF parts[i] \in PlainDecls THEN <<DeclOf(parts[i])>> ELSE <<>>])

\* pat stands in t as a word of its own: no word character touches it.
TokenAt(t, j, pat) ==
    /\ StartsAt(t, j, pat)
    /\ ~IsWord(At(t, j - 1))
    /\ ~IsWord(At(t, j + Len(pat)))

ContainsToken(t, pat) == \E j \in 1..Len(t) : TokenAt(t, j, pat)

\* t without the occurrences of pat that are words of their own.
RECURSIVE RemoveToken(_, _, _)
RemoveToken(t, i, pat) ==
    LET at == {j \in i..Len(t) : TokenAt(t, j, pat)}
    IN  IF at = {} THEN Slice(t, i, Len(t))
        ELSE Slice(t, i, Min(at) - 1) \o RemoveToken(t, Min(at) + Len(pat), pat)

\* A written text is a comment: "//" after the indentation.
IsComment(text) ==
    \E k \in 1..Len(text) :
        /\ text[k] = "//"
        /\ \A j \in 1..(k - 1) : text[j] = "    "

\* The texts an emission pass wrote for the declaration of key k.
WritesFor(out, k) == {out[n].text : n \in {m \in 1..Len(out) : out[m].for = k}}

\* Some comma-separated segment of rawArgs contains "...".
IsVariadic(rawArgs) ==
    \E n \in 1..Len(Split(rawArgs, 1)) :
        Contains(Split(rawArgs, 1)[n], <<".", ".", ".">>)

\* ------------------------------------------------------------------------
\* C1
\* ------------------------------------------------------------------------

\* The ParseHeader call c yielded at least one accepted declaration.
Yielded(c) == ParseFuncList(Text(c.parts)) # <<>>

\* The file names of the calls that yielded, in the order of the calls.
YieldedNames(cs) ==
    Concat([i \in 1..Len(cs) |->
               IF Yielded(cs[i]) THEN <<cs[i].fileName>> ELSE <<>>])

\* C1: after any sequence of ParseHeader calls a file name is in fileList
\* iff a call for it yielded at least one accepted declaration, and its
\* fileDict entry is then a non-empty list; a call that yields none leaves
\* both unchanged, so fileList is the names of the yielding calls in order.
C1_FileListIffYielded ==
    /\ \A f \in Files :
          f \in Range(fileList)
              <=> \E i \in 1..Len(calls) : calls[i].fileName = f /\ Yielded(calls[i])
    /\ DOMAIN fileDict = Range(fileList)
    /\ \A f \in Range(fileList) : fileDict[f] # <<>>
    /\ fileList = YieldedNames(calls)

\* A.h and B.h yielded declarations, then A.h was parsed with none.
C1_Witness ==
    /\ Len(calls) = 3
    /\ calls[1].fileName = "A.h" /\ Yielded(calls[1])
    /\ calls[2].fileName = "B.h" /\ Yielded(calls[2])
    /\ calls[3].fileName = "A.h" /\ ~Yielded(calls[3])
    /\ fileList = <<"A.h", "B.h">>

\* ------------------------------------------------------------------------
\* C2
\* ------------------------------------------------------------------------

\* C2: a newly constructed MockCGen has an empty file-name sequence and an
\* empty file-to-declarations mapping, whatever was parsed before on other
\* instances.
C2_NewInstanceStoreEmpty ==
    [][Len(objs') > Len(objs)
          => StoreOf(Len(objs))' = [fileList |-> <<>>, fileDict |-> EmptyDict]]_vars

\* ------------------------------------------------------------------------
\* C3
\* ------------------------------------------------------------------------

\* C3: for a header of plain declarations and inline function definitions
\* whose body holds a statement shaped like a declaration, ParseHeader
\* stores every plain declaration, in order, and nothing from a body.
C3_BraceImmunity ==
    \A n \in 1..Len(calls) :
        (/\ Len(calls) = 1
         /\ Range(calls[n].parts) \subseteq PlainDecls \cup {"InlineH"}
         /\ "InlineH" \in Range(calls[n].parts))
            => Stored(calls[n].fileName) = TopLevelDecls(calls[n].parts)

\* ------------------------------------------------------------------------
\* C4
\* ------------------------------------------------------------------------

ExternCOpens == {"ExternC", "ExternCNewline", "ExternCTight"}

\* C4: a declaration inside an extern "C" block is stored, for every layout
\* of the space between extern "C" and the brace; a declaration inside
\* another brace block is not.
C4_ExternCPreserved ==
    \A n \in 1..Len(calls) :
        LET p == calls[n].parts
        IN  (Len(calls) = 1 /\ Len(p) = 3 /\ p[2] \in PlainDecls /\ p[3] = "Close")
                => /\ p[1] \in ExternCOpens
                      => Stored(calls[n].fileName) = <<DeclOf(p[2])>>
                   /\ p[1] = "Namespace" => Stored(calls[n].fileName) = <<>>

\* ------------------------------------------------------------------------
\* C5
\* ------------------------------------------------------------------------

IsExactlyVoid(returnField) ==
    ContainsToken(returnField, Void) /\ ~Contains(returnField, <<"*">>)

\* The writes of the mock call among those made for the declaration of key k.
CallWrites(k) ==
    {w \in WritesFor(srcOut, k) : \E j \in 1..Len(w) : w[j] = "_px"}

\* C6: the forwarding function of a supported declaration prefixes the mock
\* call with return unless the return type is exactly void.
C6_ReturnUnlessVoid ==
    \A k \in StoredKeys :
        (srcOut # <<>> /\ ~IsVariadic(fileDict[k[1]][k[2]].argsField))
            => /\ CallWrites(k) # {}
               /\ \A w \in CallWrites(k) :
                     (\E j \in 1..Len(w) : w[j] = "return ")
                         <=> ~IsExactlyVoid(fileDict[k[1]][k[2]].returnField)

\* ------------------------------------------------------------------------
\* C7
\* ------------------------------------------------------------------------

\* The matches of a header that ParseHeader accepts, before step 4.2.
RECURSIVE AcceptedMatches(_)
AcceptedMatches(match) ==
    IF match = <<>> THEN <<>>
    ELSE IF IsRejected(match[1]) THEN AcceptedMatches(Tail(match))
    ELSE <<match[1]>> \o AcceptedMatches(Tail(match))

\* C7: the stored returnType is the matched return type without the word
\* extern, every other token unchanged, and never holds the word extern.
C7_ExternStripped ==
    \A n \in 1..Len(calls) :
        LET m == AcceptedMatches(pattFuncFindall(Normalize(Text(calls[n].parts)), 1))
            s == Stored(calls[n].fileName)
        IN  (Len(calls) = 1 /\ m # <<>>)
                => /\ Len(s) = Len(m)
                   /\ \A i \in 1..Len(m) :
                         /\ s[i].returnField = RemoveToken(m[i].g1, 1, Extern)
                         /\ ~ContainsToken(s[i].returnField, Extern)

\* ------------------------------------------------------------------------
\* C8
\* ------------------------------------------------------------------------

\* The indexes of the block comment openings that no later fragment closes.
Unterminated(parts) ==
    {i \in 1..Len(parts) :
        /\ parts[i] = "CommentOpen"
        /\ \A j \in (i + 1)..Len(parts) : parts[j] # "CommentClose"}

\* C8: an unterminated block comment extends to the end of the text, so
\* what is stored is what the text before it declares.
C8_UnterminatedCommentToEnd ==
    \A n \in 1..Len(calls) :
        LET p == calls[n].parts
        IN  (Len(calls) = 1 /\ Unterminated(p) # {})
                => Stored(calls[n].fileName)
                       = ParseFuncList(Text(Slice(p, 1, Min(Unterminated(p)) - 1)))

\* ------------------------------------------------------------------------
\* C9
\* ------------------------------------------------------------------------

\* The parameters of an argument list: its fragments but the commas.
Params(a) == {i \in 1..Len(a) : a[i] # "PComma"}

\* An argument list C accepts: void stands alone.
IsArgList(a) == a # <<>> /\ ("PVoid" \in Range(a) => a = <<"PVoid">>)

\* The number of arguments the list declares.
DeclaredCount(a) == IF a = <<"PVoid">> THEN 0 ELSE Cardinality(Params(a))

\* C9: for a non-variadic rawArgs the count ParseArgs returns is the
\* number of arguments the declaration declares, 0 for (void).
C9_CountIsDeclared ==
    (IsArgList(args) /\ "PEllipsis" \notin Range(args))
        => argsOut.argsCnt = DeclaredCount(args)

\* ------------------------------------------------------------------------
\* C10
\* ------------------------------------------------------------------------

\* What the trailing identifier of a segment contributes.
ArgTokens(seg) ==
    IF pattArgSearch(seg).g1 = Void THEN <<>> ELSE <<pattArgSearch(seg).g1>>

\* The tokens of the segments when the function-pointer pattern is tried
\* first.
PFuncFirstTokens(segs) ==
    [n \in 1..Len(segs) |->
        IF pattArgPFuncSearch(segs[n]).found THEN <<pattArgPFuncSearch(segs[n]).g1>>
        ELSE IF pattArgSearch(segs[n]).found THEN ArgTokens(segs[n])
        ELSE <<>>]

\* The tokens of the segments when the trailing-identifier pattern is tried
\* first.
ArgFirstTokens(segs) ==
    [n \in 1..Len(segs) |->
        IF pattArgSearch(segs[n]).found THEN ArgTokens(segs[n])
        ELSE IF pattArgPFuncSearch(segs[n]).found THEN <<pattArgPFuncSearch(segs[n]).g1>>
        ELSE <<>>]

\* C10 as claimed: for a non-variadic rawArgs a segment that matches the
\* function-pointer pattern contributes its name, and only a segment that
\* does not match it contributes its trailing identifier (none for void).
C10_PFuncPrecedence ==
    (args # <<>> /\ ~argsOut.none)
        => /\ argsOut.argsStr = Join(Concat(PFuncFirstTokens(Split(Text(args), 1))))
           /\ argsOut.argsCnt = Len(Concat(PFuncFirstTokens(Split(Text(args), 1))))

\* C10 as amended: for a non-variadic rawArgs a segment that matches the
\* trailing-identifier pattern contributes that identifier (none for
\* void), and only a segment that does not match it and matches the
\* function-pointer pattern contributes the name of the pointer.
C10_ArgPrecedence ==
    (args # <<>> /\ ~argsOut.none)
        => /\ argsOut.argsStr = Join(Concat(ArgFirstTokens(Split(Text(args), 1))))
           /\ argsOut.argsCnt = Len(Concat(ArgFirstTokens(Split(Text(args), 1))))

\* ParseArgs has projected a list with a segment that matches both patterns.
C10_Witness ==
    /\ args # <<>>
    /\ ~argsOut.none
    /\ \E n \in 1..Len(Split(Text(args), 1)) :
          /\ pattArgSearch(Split(Text(args), 1)[n]).found
          /\ pattArgPFuncSearch(Split(Text(args), 1)[n]).found
          /\ pattArgSearch(Split(Text(args), 1)[n]).g1
                 # pattArgPFuncSearch(Split(Text(args), 1)[n]).g1

====
